---- MODULE Spec2Model ----
(***************************************************************************)
(* DailyRotateWriter of internal/logging/sloglogger.go: one writer over a  *)
(* directory of dated log files, called by concurrent goroutines, with its *)
(* background autoRotate goroutine and an environment that moves the local *)
(* date, makes system calls fail and creates or touches files out of band. *)
(***************************************************************************)
EXTENDS Integers, Sequences, FiniteSets, TLC

\* ---------------------------------------------------------------- bounds
NThreads == 2           \* goroutines calling Write / Close / rotateIfNeeded
MaxDay == 4             \* local dates are 1..MaxDay
MaxOps == 4             \* calls (and ticks) started after construction
MaxEnv == 1             \* files created or touched out of band
MaxLimit == 2           \* largest retention limit (maxFiles) tried
MaxPath == 3            \* longest base path tried, in characters
MaxPad == 1             \* most white space put before and after a level string

\* ------------------------------------------------------------- processes
Ctor == 0                       \* the goroutine running NewDailyRotateWriter
Threads == 1..NThreads
Bg == NThreads + 1              \* the autoRotate goroutine
Procs == 0..(NThreads + 1)

\* ------------------------------------------------------------------ data
Dates == 1..MaxDay
Names == Dates                  \* a rotated file is named by its date
Future == MaxDay + MaxOps + 4   \* a time no run reaches
MTimes == (0..MaxDay) \cup {Future}    \* modification times set out of band
FirstDay == MaxDay - 1          \* the date at construction, unless stated
NL == 0                         \* the newline byte
Buffers(t) == {<< >>, <<t, NL>>}    \* goroutine t writes nothing or its own line
DefaultBase == <<"a", ".", "l">>    \* the base path of the runs that do not vary it
PathChars == {"a", ".", "/"}
Paths == UNION {[1..n -> PathChars] : n \in 0..MaxPath}
DateText(d) == <<"0", <<"1", "2", "3", "4", "5", "6", "7", "8", "9">>[d]>>  \* the date as Format prints it
SeedContent == <<9, NL>>        \* what a file created out of band holds
CloseFaults == {"none", "close"}
OpenFaults == {"none", "mkdir", "probe", "target", "open", "readdir", "remove"}

\* The levels of logger.go and the level strings tried: every beginning of a
\* level's name, each name with a letter added and with a space inside, in four
\* casings, with white space around.
LevelDebug == 0 - 4
LevelInfo == 0
LevelWarn == 4
LevelError == 8
LowerLetters == <<"a", "b", "c", "d", "e", "f", "g", "h", "i", "j", "k", "l", "m",
                  "n", "o", "p", "q", "r", "s", "t", "u", "v", "w", "x", "y", "z">>
UpperLetters == <<"A", "B", "C", "D", "E", "F", "G", "H", "I", "J", "K", "L", "M",
                  "N", "O", "P", "Q", "R", "S", "T", "U", "V", "W", "X", "Y", "Z">>
SpaceChars == {" ", "\t", "\n", "\r"}
LevelNames == {<<"d", "e", "b", "u", "g">>, <<"i", "n", "f", "o">>,
               <<"w", "a", "r", "n", "i", "n", "g">>, <<"e", "r", "r", "o", "r">>}
LevelCores ==
    UNION {{SubSeq(w, 1, n) : n \in 0..Len(w)} : w \in LevelNames}
    \cup {w \o <<"s">> : w \in LevelNames}
    \cup {SubSeq(w, 1, 2) \o <<" ">> \o SubSeq(w, 3, Len(w)) : w \in LevelNames}
Casings == {"lower", "upper", "title", "mixed"}
Cased(w, k) ==
    [i \in 1..Len(w) |->
        IF (k = "upper" \/ (k = "title" /\ i = 1) \/ (k = "mixed" /\ i % 2 = 0))
           /\ \E j \in 1..26 : LowerLetters[j] = w[i]
        THEN UpperLetters[CHOOSE j \in 1..26 : LowerLetters[j] = w[i]]
        ELSE w[i]]
Pads == UNION {[1..n -> {" ", "\t"}] : n \in 0..MaxPad}
LevelStrings == {a \o Cased(w, k) \o b : a \in Pads, w \in LevelCores, k \in Casings, b \in Pads}
NoParse == [level |-> LevelInfo, err |-> "none"]

\* The base paths and directory entries the cleanup's filter is tried on: a
\* prefix, a dash or none, a date or another text, an extension or none; as a
\* file and as a directory.
FilterBases == {<<"a", ".", "l">>, <<"a">>, <<"a", "/", "a", ".", "l">>}
EntryPrefixes == {<<"a">>, <<"b">>, <<"a", "a">>}
EntryDashes == {<<"-">>, << >>}
EntryMiddles ==
    {DateText(d) : d \in Dates} \cup {<<"b">>, << >>, <<"0">>, DateText(1) \o <<"x">>}
EntryExts == {<<".", "l">>, <<".", "t">>, << >>, <<".", "l", "o", "g">>}
EntryNames ==
    {q \o d \o m \o x : q \in EntryPrefixes, d \in EntryDashes, m \in EntryMiddles, x \in EntryExts}
Entries == [name : EntryNames, dir : BOOLEAN]
NoEntry == [name |-> << >>, dir |-> FALSE]

NoFile == [exists |-> FALSE, mtime |-> 0, content |-> << >>]
\* today: the date read; h: drw.file as the call found it; buf, day, ld: Write's
\* buffer, and the date and lastDate at its snapshot; after: closeReturned when
\* the call began.
NoLoc == [today |-> 0, h |-> 0, buf |-> << >>, day |-> 0, ld |-> 0, after |-> FALSE]
NoRet == [op |-> "none", err |-> "nil", n |-> 0, flt |-> "none",
          first |-> FALSE, wasOpen |-> FALSE, deleted |-> {}, failed |-> 0]

VARIABLES
    today,          \* the local date time.Now() reports
    clock,          \* the time the file system stamps the next change with
    files,          \* the directory: name -> [exists, mtime, content]
    handles,        \* every *os.File opened so far: [name, open, orphan, data, base]
    file,           \* drw.file: 0 (nil) or an index of handles
    lastDate,       \* drw.lastDate: 0 ("") or a date
    maxFiles,       \* drw.maxFiles
    mu,             \* drw.mu: 0 or the process holding the exclusive lock
    stopCh,         \* drw.stopCh: "open" or "closed"
    panicked,       \* a goroutine panicked (close of closed channel)
    pc,             \* each process's position
    loc,            \* each process's locals
    ret,            \* what the call in progress is about to return
    wlog,           \* history: the Writes accepted, in the order of their I/O
    nOps,           \* calls and ticks started so far
    envOps,         \* out-of-band file changes made so far
    closeReturned,  \* history: some Close has returned
    closeOverlap,   \* history: two Close calls overlapped
    bgStarted,      \* history: the autoRotate goroutines started so far
    basePath,       \* drw.basePath, as text
    fname,          \* newFilename as rotateIfNeeded last derived it, as text
    level,          \* NewFromConfig's level string, as text
    logLevel,       \* what parseLevel returned for it: [level, err]
    entry,          \* a directory entry cleanOldLogFiles looks at: [name, dir]
    listed          \* whether its filter put the entry in logFiles: "none", "yes", "no"

vars == <<today, clock, files, handles, file, lastDate, maxFiles, mu, stopCh, panicked,
          pc, loc, ret, wlog, nOps, envOps, closeReturned, closeOverlap, bgStarted,
          basePath, fname, level, logLevel, entry, listed>>

nameVars == <<basePath, fname>>
levelVars == <<level, logLevel>>
filterVars == <<entry, listed>>

\* --------------------------------------------------------------- helpers
RECURSIVE Concat(_)
Concat(ss) == IF ss = << >> THEN << >> ELSE Head(ss) \o Concat(Tail(ss))

RECURSIVE CountByte(_, _)
CountByte(s, b) ==
    IF s = << >> THEN 0
    ELSE (IF Head(s) = b THEN 1 ELSE 0) + CountByte(Tail(s), b)

\* Sequences that list every element of S exactly once.
Orderings(S) ==
    {s \in [1..Cardinality(S) -> S] : \A i, j \in 1..Cardinality(S) : i # j => s[i] # s[j]}

\* What a handle's file holds: the directory entry, or the unlinked inode once
\* the entry was removed under the open handle.
Content(h) ==
    IF handles[h].orphan THEN handles[h].data ELSE files[handles[h].name].content

\* strings.HasPrefix(name, prefix+"-") && strings.HasSuffix(name, ext)
MatchesPattern(n) == n \in Dates

logFiles(fs) == {n \in Names : fs[n].exists /\ MatchesPattern(n)}

\* The candidates from the most recently modified to the oldest.
SortedByModTime_Descending(fs, S) ==
    {s \in Orderings(S) : \A i, j \in 1..Len(s) : i < j => fs[s[i]].mtime >= fs[s[j]].mtime}

\* The candidates in name order, whatever their modification times.
SortedByName(fs, S) ==
    {s \in Orderings(S) : \A i, j \in 1..Cardinality(S) : i < j => s[i] < s[j]}

\* sort.Slice by ModTime().Before: any order in which no file precedes an older one.
SortedByModTime(fs, S) ==
    {s \in Orderings(S) : \A i, j \in 1..Len(s) : i < j => fs[s[i]].mtime <= fs[s[j]].mtime}

Unlink(fs, D) == [n \in Names |-> IF n \in D THEN NoFile ELSE fs[n]]

\* A cleanup whose loop stops one file early.
cleanOldLogFiles_OffByOne(fs, limit, flt) ==
    IF flt = "readdir"
    THEN {[files |-> fs, err |-> "clean_readdir", deleted |-> {}, failed |-> 0]}
    ELSE IF Cardinality(logFiles(fs)) <= limit
    THEN {[files |-> fs, err |-> "nil", deleted |-> {}, failed |-> 0]}
    ELSE LET k == Cardinality(logFiles(fs)) - limit - 1
         IN  {[files |-> Unlink(fs, {s[i] : i \in 1..k}),
               err |-> IF flt = "remove" THEN "clean_remove" ELSE "nil",
               deleted |-> {s[i] : i \in 1..k}, failed |-> 0] :
                  s \in SortedByModTime(fs, logFiles(fs))}

\* A cleanup that goes on with the next file when a removal fails.
cleanOldLogFiles_SkipFailed(fs, limit, flt) ==
    IF flt = "readdir"
    THEN {[files |-> fs, err |-> "clean_readdir", deleted |-> {}, failed |-> 0]}
    ELSE IF Cardinality(logFiles(fs)) <= limit
    THEN {[files |-> fs, err |-> "nil", deleted |-> {}, failed |-> 0]}
    ELSE LET k == Cardinality(logFiles(fs)) - limit
         IN  {[files |-> Unlink(fs, {s[i] : i \in (1..k) \ {j}}),
               err |-> IF flt = "remove" THEN "clean_remove" ELSE "nil",
               deleted |-> {s[i] : i \in (1..k) \ {j}},
               failed |-> IF flt = "remove" THEN s[j] ELSE 0] :
                  s \in SortedByModTime(fs, logFiles(fs)),
                  j \in IF flt = "remove" THEN 1..k ELSE {k + 1}}

\* cleanOldLogFiles when the system call flt fails: the outcomes [files, err,
\* deleted, failed] it can have on directory fs; failed is the file the error names.
cleanOldLogFiles(fs, limit, flt) ==
    IF flt = "readdir"
    THEN {[files |-> fs, err |-> "clean_readdir", deleted |-> {}, failed |-> 0]}
    ELSE IF Cardinality(logFiles(fs)) <= limit
    THEN {[files |-> fs, err |-> "nil", deleted |-> {}, failed |-> 0]}
    ELSE LET k == Cardinality(logFiles(fs)) - limit
         IN  IF flt = "remove"
             THEN {[files |-> Unlink(fs, {s[i] : i \in 1..(j - 1)}),
                    err |-> "clean_remove",
                    deleted |-> {s[i] : i \in 1..(j - 1)}, failed |-> s[j]] :
                       s \in SortedByModTime(fs, logFiles(fs)), j \in 1..k}
             ELSE {[files |-> Unlink(fs, {s[i] : i \in 1..k}),
                    err |-> "nil",
                    deleted |-> {s[i] : i \in 1..k}, failed |-> 0] :
                       s \in SortedByModTime(fs, logFiles(fs))}

\* A handle whose directory entry is removed while it is open keeps its inode.
Orphaned(hs, fs, D) ==
    [i \in 1..Len(hs) |->
        IF hs[i].open /\ ~hs[i].orphan /\ hs[i].name \in D
        THEN [hs[i] EXCEPT !.orphan = TRUE, !.data = fs[hs[i].name].content]
        ELSE hs[i]]

Running == ~panicked
Constructed == pc[Ctor] = "done"

\* ------------------------------------------------------------------ Init
\* The fields NewDailyRotateWriter sets before its first rotateIfNeeded, with a
\* retention limit of limits, in a directory of fs0.
InitWriter(limits, fs0) ==
    /\ clock = MaxDay + 1
    /\ files \in fs0
    /\ handles = << >>
    /\ file = 0
    /\ lastDate = 0
    /\ maxFiles \in limits
    /\ mu = 0
    /\ stopCh = "open"
    /\ panicked = FALSE
    /\ pc = [p \in Procs |-> IF p = Ctor THEN "new" ELSE IF p = Bg THEN "none" ELSE "idle"]
    /\ loc = [p \in Procs |-> NoLoc]
    /\ ret = [p \in Procs |-> NoRet]
    /\ wlog = << >>
    /\ nOps = 0
    /\ envOps = 0
    /\ closeReturned = FALSE
    /\ closeOverlap = FALSE
    /\ bgStarted = 0
    /\ fname = << >>

\* Directories holding files named in S only, each last modified on its own date.
Seeded(S) ==
    {fs \in [Names -> {NoFile} \cup
                      {[exists |-> TRUE, mtime |-> n, content |-> SeedContent] : n \in Names}] :
        \A n \in Names : fs[n].exists => n \in S /\ fs[n].mtime = n}

Init ==
    /\ today = FirstDay
    /\ basePath = DefaultBase
    /\ level = << >>
    /\ entry = NoEntry
    /\ listed = "none"
    /\ logLevel = NoParse
    /\ InitWriter({0, 1}, Seeded({}))

\* ------------------------------------------------------- rotateIfNeeded
\* today := time.Now().Format("2006-01-02"), before the lock is taken.
rotateIfNeeded_now(p) ==
    /\ Running
    /\ \/ p = Ctor /\ pc[p] = "new" /\ UNCHANGED nOps
       \/ p \in Threads /\ pc[p] = "idle" /\ Constructed
          /\ nOps < MaxOps /\ nOps' = nOps + 1
    /\ pc' = [pc EXCEPT ![p] = "rot_lock"]
    /\ loc' = [loc EXCEPT ![p] = [NoLoc EXCEPT !.today = today, !.after = closeReturned]]
    /\ UNCHANGED nameVars
    /\ UNCHANGED levelVars
    /\ UNCHANGED filterVars
    /\ UNCHANGED <<bgStarted, today, clock, files, handles, file, lastDate, maxFiles, mu, stopCh,
                   panicked, ret, wlog, envOps, closeReturned, closeOverlap>>

\* What f.Close() returns on handle h of hs when the system call fails as flt.
FileCloseError(hs, h, flt) ==
    IF ~hs[h].open THEN "closed" ELSE IF flt = "close" THEN "io" ELSE "nil"

\* A close that reports success and keeps the descriptor.
FileClose_Leak(hs, h) == hs

\* f.Close(): the descriptor is released whatever the call returns.
FileClose(hs, h) == [hs EXCEPT ![h].open = FALSE]

\* An Ext that takes the last dot of the whole path, directories included.
RECURSIVE ExtFrom_AnyDot(_, _)
ExtFrom_AnyDot(path, i) ==
    IF i < 1 THEN << >>
    ELSE IF path[i] = "." THEN SubSeq(path, i, Len(path))
    ELSE ExtFrom_AnyDot(path, i - 1)

\* filepath.Ext: scan back from the end, stop at a separator, return from the dot.
RECURSIVE ExtFrom(_, _)
ExtFrom(path, i) ==
    IF i < 1 \/ path[i] = "/" THEN << >>
    ELSE IF path[i] = "." THEN SubSeq(path, i, Len(path))
    ELSE ExtFrom(path, i - 1)

Ext_AnyDot(path) == ExtFrom_AnyDot(path, Len(path))

Ext(path) == ExtFrom(path, Len(path))

\* ext, basename, fmt.Sprintf("%s-%s%s", basename, today, ext), and ".log" when ext is empty.
newFilename(base, date) ==
    LET ext == Ext(base)
        basename == IF ext # << >> THEN SubSeq(base, 1, Len(base) - Len(ext)) ELSE base
        n == basename \o <<"-">> \o date \o ext
    IN  IF ext = << >> THEN n \o <<".", "l", "o", "g">> ELSE n

\* A check with no fast path.
upToDate_Never(f, ld, td) == FALSE

\* if drw.file != nil && drw.lastDate == today
upToDate_AnyDate(f, ld, td) == f # 0

upToDate(f, ld, td) == f # 0 /\ ld = td

\* drw.mu.Lock(), the fast-path test, the new file's name and the close of the
\* file that is open.
rotateIfNeeded_lock(p, flt) ==
    /\ Running
    /\ pc[p] = "rot_lock"
    /\ mu = 0
    /\ mu' = p
    /\ loc' = [loc EXCEPT ![p].h = file]
    /\ fname' = IF upToDate(file, lastDate, loc[p].today) THEN fname
                ELSE newFilename(basePath, DateText(loc[p].today))
    /\ IF upToDate(file, lastDate, loc[p].today)
       THEN /\ pc' = [pc EXCEPT ![p] = "rot_unlock"]
            /\ ret' = [ret EXCEPT ![p] = [NoRet EXCEPT !.op = "rotate_fast"]]
            /\ UNCHANGED <<handles, file>>
       ELSE IF file # 0
       THEN IF FileCloseError(handles, file, flt) = "nil"
            THEN /\ handles' = FileClose(handles, file)
                 /\ file' = 0
                 /\ pc' = [pc EXCEPT ![p] = "rot_open"]
                 /\ UNCHANGED ret
            ELSE /\ handles' = FileClose(handles, file)
                 /\ pc' = [pc EXCEPT ![p] = "rot_unlock"]
                 /\ ret' = [ret EXCEPT ![p] =
                              [NoRet EXCEPT !.op = "rotate", !.err = "close_existing",
                                            !.flt = flt]]
                 /\ UNCHANGED file
       ELSE /\ pc' = [pc EXCEPT ![p] = "rot_open"]
            /\ UNCHANGED <<handles, file, ret>>
    /\ UNCHANGED basePath
    /\ UNCHANGED levelVars
    /\ UNCHANGED filterVars
    /\ UNCHANGED <<bgStarted, today, clock, files, lastDate, maxFiles, stopCh, panicked, wlog, nOps,
                   envOps, closeReturned, closeOverlap>>

\* An open sequence without the test of an existing target.
OpenError_NoTargetTest(fs, name, flt) ==
    IF flt = "mkdir" THEN "mkdir"
    ELSE IF flt = "probe" THEN "dir_not_writable"
    ELSE IF flt = "open" THEN "create"
    ELSE "nil"

\* The error the open sequence returns when the system call flt fails: MkdirAll,
\* the writability probe, the check of an existing target, the open itself.
OpenError(fs, name, flt) ==
    IF flt = "mkdir" THEN "mkdir"
    ELSE IF flt = "probe" THEN "dir_not_writable"
    ELSE IF fs[name].exists /\ flt = "target" THEN "target_not_writable"
    ELSE IF flt = "open" THEN "create"
    ELSE "nil"

\* os.OpenFile(newFilename, O_CREATE|O_WRONLY|O_APPEND): the directory afterwards.
OpenFile(fs, name, now) ==
    IF fs[name].exists THEN fs
    ELSE [fs EXCEPT ![name] = [exists |-> TRUE, mtime |-> now, content |-> << >>]]

\* A commit that installs the handle opened before this one.
commit_oldHandle(h, name) == [file |-> IF h > 1 THEN h - 1 ELSE h, lastDate |-> name]

\* A commit that records the date and forgets the handle.
commit_noHandle(h, name) == [file |-> file, lastDate |-> name]

\* A commit that installs the handle and forgets the date.
commit_keepDate(h, name) == [file |-> h, lastDate |-> lastDate]

\* drw.file = f; drw.lastDate = today
commit(h, name) == [file |-> h, lastDate |-> name]

\* A cleanup that runs whatever the limit is.
cleanIfLimited_Always(fs, limit, flt) == cleanOldLogFiles(fs, limit, flt)

\* The retention cleanup runs only under a limit.
cleanIfLimited(fs, limit, flt) ==
    IF limit > 0 THEN cleanOldLogFiles(fs, limit, flt)
    ELSE {[files |-> fs, err |-> "nil", deleted |-> {}, failed |-> 0]}

\* MkdirAll, the writability probe, the check of an existing target, the open,
\* the commit of (file, lastDate) and the retention cleanup.
rotateIfNeeded_open(p, flt) ==
    /\ Running
    /\ pc[p] = "rot_open"
    /\ LET name == loc[p].today
           e == OpenError(files, name, flt)
       IN  IF e # "nil"
           THEN /\ ret' = [ret EXCEPT ![p] =
                             [NoRet EXCEPT !.op = "rotate", !.err = e, !.flt = flt]]
                /\ UNCHANGED <<clock, files, handles, file, lastDate>>
           ELSE LET fs1 == OpenFile(files, name, clock)
                    hs1 == Append(handles, [name |-> name, open |-> TRUE, orphan |-> FALSE,
                                            data |-> << >>, base |-> fs1[name].content])
                    c == commit(Len(hs1), name)
                IN  /\ clock' = IF files[name].exists THEN clock ELSE clock + 1
                    /\ file' = c.file
                    /\ lastDate' = c.lastDate
                    /\ \E o \in cleanIfLimited(fs1, maxFiles, flt) :
                          /\ files' = o.files
                          /\ handles' = Orphaned(hs1, fs1, o.deleted)
                          /\ ret' = [ret EXCEPT ![p] =
                                       [NoRet EXCEPT !.op = "rotate", !.err = o.err,
                                                     !.flt = flt, !.deleted = o.deleted,
                                                     !.failed = o.failed]]
    /\ pc' = [pc EXCEPT ![p] = "rot_unlock"]
    /\ UNCHANGED nameVars
    /\ UNCHANGED levelVars
    /\ UNCHANGED filterVars
    /\ UNCHANGED <<bgStarted, today, maxFiles, mu, stopCh, panicked, loc, wlog, nOps, envOps,
                   closeReturned, closeOverlap>>

\* A constructor that starts the goroutine before it looks at the error.
CtorResult_GoFirst(err) ==
    [pc |-> IF err = "nil" THEN "done" ELSE "failed", started |-> 1]

\* A constructor that starts the goroutine twice.
CtorResult_GoTwice(err) ==
    IF err = "nil" THEN [pc |-> "done", started |-> 2] ELSE [pc |-> "failed", started |-> 0]

\* if err := drw.rotateIfNeeded(); err != nil { return nil, err }; go drw.autoRotate():
\* what NewDailyRotateWriter returns and how many goroutines it starts.
CtorResult(err) ==
    IF err = "nil" THEN [pc |-> "done", started |-> 1] ELSE [pc |-> "failed", started |-> 0]

\* defer drw.mu.Unlock() and the return to the caller: NewDailyRotateWriter
\* starts autoRotate on success, autoRotate goes back to its select.
rotateIfNeeded_unlock(p) ==
    /\ Running
    /\ pc[p] = "rot_unlock"
    /\ mu' = 0
    /\ pc' = IF p = Ctor
             THEN [pc EXCEPT ![Ctor] = CtorResult(ret[p].err).pc,
                             ![Bg] = IF CtorResult(ret[p].err).started > 0
                                     THEN "select" ELSE @]
             ELSE IF p = Bg THEN [pc EXCEPT ![p] = "select"]
             ELSE [pc EXCEPT ![p] = "idle"]
    /\ bgStarted' = IF p = Ctor THEN bgStarted + CtorResult(ret[p].err).started
                    ELSE bgStarted
    /\ loc' = [loc EXCEPT ![p] = NoLoc]
    /\ ret' = [ret EXCEPT ![p] = NoRet]
    /\ UNCHANGED nameVars
    /\ UNCHANGED levelVars
    /\ UNCHANGED filterVars
    /\ UNCHANGED <<today, clock, files, handles, file, lastDate, maxFiles, stopCh, panicked,
                   wlog, nOps, envOps, closeReturned, closeOverlap>>

\* ---------------------------------------------------------------- Write
\* A read lock that does not wait for the holder of the exclusive lock.
RLockFree_Always(m) == TRUE

\* drw.mu.RLock() goes through when no goroutine holds the exclusive lock.
RLockFree(m) == m = 0

\* A Write that brings the recorded date up to the date it sees.
Write_snapshot_Dating(t, b) ==
    /\ Running
    /\ Constructed
    /\ pc[t] = "idle"
    /\ nOps < MaxOps
    /\ RLockFree(mu)
    /\ pc' = [pc EXCEPT ![t] = "w_io"]
    /\ loc' = [loc EXCEPT ![t] = [today |-> 0, h |-> file, buf |-> b, day |-> today,
                                  ld |-> lastDate, after |-> closeReturned]]
    /\ nOps' = nOps + 1
    /\ lastDate' = today
    /\ UNCHANGED nameVars
    /\ UNCHANGED levelVars
    /\ UNCHANGED filterVars
    /\ UNCHANGED <<bgStarted, today, clock, files, handles, file, maxFiles, mu, stopCh,
                   panicked, ret, wlog, envOps, closeReturned, closeOverlap>>

\* RLock; file := drw.file; RUnlock.
Write_snapshot(t, b) ==
    /\ Running
    /\ Constructed
    /\ pc[t] = "idle"
    /\ nOps < MaxOps
    /\ RLockFree(mu)
    /\ pc' = [pc EXCEPT ![t] = "w_io"]
    /\ loc' = [loc EXCEPT ![t] = [today |-> 0, h |-> file, buf |-> b, day |-> today,
                                  ld |-> lastDate, after |-> closeReturned]]
    /\ nOps' = nOps + 1
    /\ UNCHANGED nameVars
    /\ UNCHANGED levelVars
    /\ UNCHANGED filterVars
    /\ UNCHANGED <<bgStarted, today, clock, files, handles, file, lastDate, maxFiles, mu, stopCh,
                   panicked, ret, wlog, envOps, closeReturned, closeOverlap>>

\* A Write without the nil test: (*os.File)(nil).Write reports ErrInvalid.
WriteError_NoNilTest(hs, h) ==
    IF h = 0 THEN "invalid" ELSE IF hs[h].open THEN "nil" ELSE "closed"

\* What Write returns for its snapshot h: the nil test, then f.Write's own test.
WriteError(hs, h) ==
    IF h = 0 THEN "not_initialized" ELSE IF hs[h].open THEN "nil" ELSE "closed"

\* A short write: the last byte of the buffer does not reach the file.
FileWrite_Short(c, b) == IF b = << >> THEN c ELSE c \o SubSeq(b, 1, Len(b) - 1)

\* A torn write: the buffer's first byte lands inside the line before it.
FileWrite_Torn(c, b) ==
    IF c = << >> \/ b = << >>
    THEN c \o b
    ELSE SubSeq(c, 1, Len(c) - 1) \o <<Head(b), c[Len(c)]>> \o Tail(b)

\* f.Write(b) on an open *os.File holding c: the whole buffer is appended in one piece.
FileWrite(c, b) == c \o b

\* The nil test and file.Write(p) on the snapshot.
Write_io(t) ==
    /\ Running
    /\ pc[t] = "w_io"
    /\ LET h == loc[t].h
           b == loc[t].buf
           e == WriteError(handles, h)
       IN  /\ IF e = "nil"
              THEN IF handles[h].orphan
                   THEN /\ handles' = [handles EXCEPT ![h].data = FileWrite(@, b)]
                        /\ UNCHANGED files
                   ELSE /\ files' = [files EXCEPT ![handles[h].name] =
                                       [@ EXCEPT !.content = FileWrite(@, b),
                                                 !.mtime = IF b = << >> THEN @ ELSE clock]]
                        /\ UNCHANGED handles
              ELSE UNCHANGED <<files, handles>>
           /\ clock' = IF e = "nil" /\ b # << >> /\ ~handles[h].orphan
                       THEN clock + 1 ELSE clock
           /\ ret' = [ret EXCEPT ![t] =
                        [NoRet EXCEPT !.op = "write", !.err = e,
                                      !.n = IF e = "nil" THEN Len(b) ELSE 0]]
           /\ wlog' = IF e = "nil"
                      THEN Append(wlog, [buf |-> b, h |-> h, day |-> loc[t].day,
                                         ld |-> loc[t].ld])
                      ELSE wlog
    /\ pc' = [pc EXCEPT ![t] = "w_ret"]
    /\ UNCHANGED nameVars
    /\ UNCHANGED levelVars
    /\ UNCHANGED filterVars
    /\ UNCHANGED <<bgStarted, today, file, lastDate, maxFiles, mu, stopCh, panicked, loc, nOps,
                   envOps, closeReturned, closeOverlap>>

\* Write returns (n, err) to its caller.
Write_return(t) ==
    /\ Running
    /\ pc[t] = "w_ret"
    /\ pc' = [pc EXCEPT ![t] = "idle"]
    /\ loc' = [loc EXCEPT ![t] = NoLoc]
    /\ ret' = [ret EXCEPT ![t] = NoRet]
    /\ UNCHANGED nameVars
    /\ UNCHANGED levelVars
    /\ UNCHANGED filterVars
    /\ UNCHANGED <<bgStarted, today, clock, files, handles, file, lastDate, maxFiles, mu, stopCh,
                   panicked, wlog, nOps, envOps, closeReturned, closeOverlap>>

\* ---------------------------------------------------------------- Close
InClose(u) == pc[u] \in {"c_chan", "c_lock", "c_ret"}

\* Some Close has already run its locked part.
closeBodyRan == closeReturned \/ \E u \in Threads : pc[u] = "c_ret"

\* A Close that closes the channel without looking at it.
StopChTest_Always(ch) == "c_chan"

\* select { case <-drw.stopCh: default: close(drw.stopCh) }: where the test of
\* the stop channel sends the caller.
StopChTest(ch) == IF ch = "closed" THEN "c_lock" ELSE "c_chan"

\* The test of the stop channel.
Close_select(t) ==
    /\ Running
    /\ Constructed
    /\ pc[t] = "idle"
    /\ nOps < MaxOps
    /\ nOps' = nOps + 1
    /\ pc' = [pc EXCEPT ![t] = StopChTest(stopCh)]
    /\ loc' = [loc EXCEPT ![t] = [NoLoc EXCEPT !.after = closeReturned]]
    /\ closeOverlap' = (closeOverlap \/ \E u \in Threads \ {t} : InClose(u))
    /\ UNCHANGED nameVars
    /\ UNCHANGED levelVars
    /\ UNCHANGED filterVars
    /\ UNCHANGED <<bgStarted, today, clock, files, handles, file, lastDate, maxFiles, mu, stopCh,
                   panicked, ret, wlog, envOps, closeReturned>>

\* close(drw.stopCh): panics when the channel is closed already.
Close_stopCh(t) ==
    /\ Running
    /\ pc[t] = "c_chan"
    /\ IF stopCh = "closed"
       THEN /\ panicked' = TRUE
            /\ pc' = [pc EXCEPT ![t] = "panic"]
            /\ UNCHANGED stopCh
       ELSE /\ stopCh' = "closed"
            /\ pc' = [pc EXCEPT ![t] = "c_lock"]
            /\ UNCHANGED panicked
    /\ UNCHANGED nameVars
    /\ UNCHANGED levelVars
    /\ UNCHANGED filterVars
    /\ UNCHANGED <<bgStarted, today, clock, files, handles, file, lastDate, maxFiles, mu, loc, ret, wlog,
                   nOps, envOps, closeReturned, closeOverlap>>

\* drw.mu.Lock(); if drw.file != nil { return drw.file.Close() }; return nil.
Close_locked(t, flt) ==
    /\ Running
    /\ pc[t] = "c_lock"
    /\ mu = 0
    /\ IF file # 0
       THEN /\ ret' = [ret EXCEPT ![t] =
                         [op |-> "close", err |-> FileCloseError(handles, file, flt),
                          n |-> 0, flt |-> flt, first |-> ~closeBodyRan,
                          wasOpen |-> handles[file].open, deleted |-> {}, failed |-> 0]]
            /\ handles' = FileClose(handles, file)
       ELSE /\ ret' = [ret EXCEPT ![t] =
                         [op |-> "close", err |-> "nil", n |-> 0, flt |-> flt,
                          first |-> ~closeBodyRan, wasOpen |-> FALSE, deleted |-> {}, failed |-> 0]]
            /\ UNCHANGED handles
    /\ pc' = [pc EXCEPT ![t] = "c_ret"]
    /\ UNCHANGED nameVars
    /\ UNCHANGED levelVars
    /\ UNCHANGED filterVars
    /\ UNCHANGED <<bgStarted, today, clock, files, file, lastDate, maxFiles, mu, stopCh, panicked, loc,
                   wlog, nOps, envOps, closeReturned, closeOverlap>>

\* Close returns its error to its caller.
Close_return(t) ==
    /\ Running
    /\ pc[t] = "c_ret"
    /\ closeReturned' = TRUE
    /\ pc' = [pc EXCEPT ![t] = "idle"]
    /\ loc' = [loc EXCEPT ![t] = NoLoc]
    /\ ret' = [ret EXCEPT ![t] = NoRet]
    /\ UNCHANGED nameVars
    /\ UNCHANGED levelVars
    /\ UNCHANGED filterVars
    /\ UNCHANGED <<bgStarted, today, clock, files, handles, file, lastDate, maxFiles, mu, stopCh,
                   panicked, wlog, nOps, envOps, closeOverlap>>

\* ----------------------------------------------------------- autoRotate
\* case <-ticker.C: _ = drw.rotateIfNeeded(), up to its reading of the clock.
autoRotate_tick ==
    /\ Running
    /\ pc[Bg] = "select"
    /\ nOps < MaxOps
    /\ nOps' = nOps + 1
    /\ pc' = [pc EXCEPT ![Bg] = "rot_lock"]
    /\ loc' = [loc EXCEPT ![Bg] = [NoLoc EXCEPT !.today = today]]
    /\ UNCHANGED nameVars
    /\ UNCHANGED levelVars
    /\ UNCHANGED filterVars
    /\ UNCHANGED <<bgStarted, today, clock, files, handles, file, lastDate, maxFiles, mu, stopCh,
                   panicked, ret, wlog, envOps, closeReturned, closeOverlap>>

\* The same tick outside the budget of calls: the ticker fires for ever.
autoRotate_tickFree ==
    /\ Running
    /\ pc[Bg] = "select"
    /\ pc' = [pc EXCEPT ![Bg] = "rot_lock"]
    /\ loc' = [loc EXCEPT ![Bg] = [NoLoc EXCEPT !.today = today]]
    /\ UNCHANGED nameVars
    /\ UNCHANGED levelVars
    /\ UNCHANGED filterVars
    /\ UNCHANGED <<bgStarted, today, clock, files, handles, file, lastDate, maxFiles, mu, stopCh,
                   panicked, ret, wlog, nOps, envOps, closeReturned, closeOverlap>>

\* An autoRotate whose select has no stop case.
autoRotate_stop_NoCase == FALSE /\ UNCHANGED vars

\* case <-drw.stopCh: return
autoRotate_stop ==
    /\ Running
    /\ pc[Bg] = "select"
    /\ stopCh = "closed"
    /\ pc' = [pc EXCEPT ![Bg] = "exit"]
    /\ UNCHANGED nameVars
    /\ UNCHANGED levelVars
    /\ UNCHANGED filterVars
    /\ UNCHANGED <<bgStarted, today, clock, files, handles, file, lastDate, maxFiles, mu, stopCh,
                   panicked, loc, ret, wlog, nOps, envOps, closeReturned, closeOverlap>>

\* ---------------------------------------------------------- environment
\* Midnight passes.
DayAdvance ==
    /\ Running
    /\ today < MaxDay
    /\ today' = today + 1
    /\ UNCHANGED nameVars
    /\ UNCHANGED levelVars
    /\ UNCHANGED filterVars
    /\ UNCHANGED <<bgStarted, clock, files, handles, file, lastDate, maxFiles, mu, stopCh, panicked, pc,
                   loc, ret, wlog, nOps, envOps, closeReturned, closeOverlap>>

\* A dated file is created out of band, with any modification time.
EnvCreate(n, m) ==
    /\ Running
    /\ envOps < MaxEnv
    /\ ~files[n].exists
    /\ files' = [files EXCEPT ![n] = [exists |-> TRUE, mtime |-> m, content |-> SeedContent]]
    /\ envOps' = envOps + 1
    /\ UNCHANGED nameVars
    /\ UNCHANGED levelVars
    /\ UNCHANGED filterVars
    /\ UNCHANGED <<bgStarted, today, clock, handles, file, lastDate, maxFiles, mu, stopCh, panicked, pc,
                   loc, ret, wlog, nOps, closeReturned, closeOverlap>>

\* os.Chtimes on a file of the directory.
EnvTouch(n, m) ==
    /\ Running
    /\ envOps < MaxEnv
    /\ files[n].exists
    /\ files[n].mtime # m
    /\ files' = [files EXCEPT ![n].mtime = m]
    /\ envOps' = envOps + 1
    /\ UNCHANGED nameVars
    /\ UNCHANGED levelVars
    /\ UNCHANGED filterVars
    /\ UNCHANGED <<bgStarted, today, clock, handles, file, lastDate, maxFiles, mu, stopCh, panicked, pc,
                   loc, ret, wlog, nOps, closeReturned, closeOverlap>>

\* ------------------------------------------------ cleanOldLogFiles filter
HasPrefix(t, q) == Len(t) >= Len(q) /\ SubSeq(t, 1, Len(q)) = q
HasSuffix(t, x) == Len(t) >= Len(x) /\ SubSeq(t, Len(t) - Len(x) + 1, Len(t)) = x

\* filepath.Base: trailing separators dropped, then the text after the last separator.
RECURSIVE StripSlashes(_)
StripSlashes(path) ==
    IF path # << >> /\ path[Len(path)] = "/"
    THEN StripSlashes(SubSeq(path, 1, Len(path) - 1)) ELSE path

RECURSIVE LastElement(_)
LastElement(path) ==
    IF path = << >> \/ path[Len(path)] = "/" THEN << >>
    ELSE LastElement(SubSeq(path, 1, Len(path) - 1)) \o <<path[Len(path)]>>

Base(path) ==
    IF path = << >> THEN <<".">>
    ELSE IF StripSlashes(path) = << >> THEN <<"/">>
    ELSE LastElement(StripSlashes(path))

\* !file.IsDir() && strings.HasPrefix(name, prefix+"-") &&
\* (strings.HasSuffix(name, ext) || (ext == "" && strings.HasSuffix(name, ".log")))
isLogFile(base, e) ==
    LET baseFileName == Base(base)
        ext == Ext(baseFileName)
        prefix == IF ext # << >>
                  THEN SubSeq(baseFileName, 1, Len(baseFileName) - Len(ext))
                  ELSE baseFileName
    IN  /\ ~e.dir
        /\ HasPrefix(e.name, prefix \o <<"-">>)
        /\ (HasSuffix(e.name, ext) \/ (ext = << >> /\ HasSuffix(e.name, <<".", "l", "o", "g">>)))

\* One turn of the loop over the directory entries.
cleanOldLogFiles_filter ==
    /\ listed = "none"
    /\ listed' = IF isLogFile(basePath, entry) THEN "yes" ELSE "no"
    /\ UNCHANGED <<entry, nameVars, levelVars>>
    /\ UNCHANGED <<today, clock, files, handles, file, lastDate, maxFiles, mu, stopCh, panicked,
                   pc, loc, ret, wlog, nOps, envOps, closeReturned, closeOverlap, bgStarted>>

\* ----------------------------------------------------------- parseLevel
\* strings.ToLower on one character.
ToLowerChar(c) ==
    IF \E j \in 1..26 : UpperLetters[j] = c
    THEN LowerLetters[CHOOSE j \in 1..26 : UpperLetters[j] = c]
    ELSE c

ToLower(s) == [i \in 1..Len(s) |-> ToLowerChar(s[i])]

RECURSIVE TrimLeft(_)
TrimLeft(s) ==
    IF s # << >> /\ Head(s) \in SpaceChars THEN TrimLeft(Tail(s)) ELSE s

RECURSIVE TrimRight(_)
TrimRight(s) ==
    IF s # << >> /\ s[Len(s)] \in SpaceChars THEN TrimRight(SubSeq(s, 1, Len(s) - 1)) ELSE s

\* A trim of the leading white space only.
TrimSpace_LeftOnly(s) == TrimLeft(s)

\* strings.TrimSpace
TrimSpace(s) == TrimRight(TrimLeft(s))

\* switch strings.ToLower(strings.TrimSpace(s)) { case ... }
parseLevel(s) ==
    LET w == ToLower(TrimSpace(s))
    IN  IF w = <<"d", "e", "b", "u", "g">> THEN [level |-> LevelDebug, err |-> "nil"]
        ELSE IF w = <<"i", "n", "f", "o">> \/ w = << >> THEN [level |-> LevelInfo, err |-> "nil"]
        ELSE IF w = <<"w", "a", "r", "n">> \/ w = <<"w", "a", "r", "n", "i", "n", "g">>
        THEN [level |-> LevelWarn, err |-> "nil"]
        ELSE IF w = <<"e", "r", "r", "o", "r">> \/ w = <<"e", "r", "r">>
        THEN [level |-> LevelError, err |-> "nil"]
        ELSE [level |-> LevelInfo, err |-> "unknown"]

\* logLevel, err := parseLevel(level)
NewFromConfig_parseLevel ==
    /\ logLevel = NoParse
    /\ logLevel' = parseLevel(level)
    /\ UNCHANGED <<level, nameVars, filterVars>>
    /\ UNCHANGED <<today, clock, files, handles, file, lastDate, maxFiles, mu, stopCh, panicked,
                   pc, loc, ret, wlog, nOps, envOps, closeReturned, closeOverlap, bgStarted>>

\* ------------------------------------------------------------------ Next
\* Concurrent callers, the background goroutine and the clock.
Next ==
    \/ \E p \in {Ctor} \cup Threads : rotateIfNeeded_now(p)
    \/ \E p \in Procs, flt \in CloseFaults : rotateIfNeeded_lock(p, flt)
    \/ \E p \in Procs, flt \in OpenFaults : rotateIfNeeded_open(p, flt)
    \/ \E p \in Procs : rotateIfNeeded_unlock(p)
    \/ \E t \in Threads : \E b \in Buffers(t) : Write_snapshot(t, b)
    \/ \E t \in Threads : Write_io(t)
    \/ \E t \in Threads : Write_return(t)
    \/ \E t \in Threads : Close_select(t)
    \/ \E t \in Threads : Close_stopCh(t)
    \/ \E t \in Threads, flt \in CloseFaults : Close_locked(t, flt)
    \/ \E t \in Threads : Close_return(t)
    \/ autoRotate_tick
    \/ autoRotate_stop
    \/ DayAdvance

Spec == Init /\ [][Next]_vars

\* One caller in a directory that holds dated files already and changes out of band.
InitDir ==
    /\ today \in {FirstDay, MaxDay}
    /\ basePath = DefaultBase
    /\ level = << >>
    /\ entry = NoEntry
    /\ listed = "none"
    /\ logLevel = NoParse
    /\ InitWriter(0..MaxLimit, UNION {Seeded(S) : S \in SUBSET (Names \ {today})})

NextDir ==
    \/ \E p \in {Ctor, 1} : rotateIfNeeded_now(p)
    \/ \E p \in {Ctor, 1}, flt \in CloseFaults : rotateIfNeeded_lock(p, flt)
    \/ \E p \in {Ctor, 1}, flt \in OpenFaults : rotateIfNeeded_open(p, flt)
    \/ \E p \in {Ctor, 1} : rotateIfNeeded_unlock(p)
    \/ \E b \in Buffers(1) : Write_snapshot(1, b)
    \/ Write_io(1)
    \/ Write_return(1)
    \/ DayAdvance
    \/ \E n \in Names, m \in MTimes : EnvCreate(n, m)
    \/ \E n \in Names, m \in MTimes : EnvTouch(n, m)

SpecDir == InitDir /\ [][NextDir]_vars

\* The constructor alone, over every base path and date.
InitName ==
    /\ today \in Dates
    /\ basePath \in Paths
    /\ level = << >>
    /\ entry = NoEntry
    /\ listed = "none"
    /\ logLevel = NoParse
    /\ InitWriter({0}, Seeded({}))

NextName ==
    \/ rotateIfNeeded_now(Ctor)
    \/ \E flt \in CloseFaults : rotateIfNeeded_lock(Ctor, flt)
    \/ \E flt \in OpenFaults : rotateIfNeeded_open(Ctor, flt)
    \/ rotateIfNeeded_unlock(Ctor)

SpecName == InitName /\ [][NextName]_vars

\* parseLevel alone, over every level string.
InitLevel ==
    /\ today = FirstDay
    /\ basePath = DefaultBase
    /\ level \in LevelStrings
    /\ entry = NoEntry
    /\ listed = "none"
    /\ logLevel = NoParse
    /\ InitWriter({0}, Seeded({}))

NextLevel == NewFromConfig_parseLevel

SpecLevel == InitLevel /\ [][NextLevel]_vars

\* The cleanup's filter alone, over base paths and directory entries.
InitFilter ==
    /\ today = FirstDay
    /\ basePath \in FilterBases
    /\ level = << >>
    /\ logLevel = NoParse
    /\ entry \in Entries
    /\ listed = "none"
    /\ InitWriter({1}, Seeded({}))

NextFilter == cleanOldLogFiles_filter

SpecFilter == InitFilter /\ [][NextFilter]_vars

\* The writer with its ticker running for ever and no system call failing:
\* explicit rotation checks and Close calls within the budget, ticks without end.
NextLive ==
    \/ \E p \in {Ctor} \cup Threads : rotateIfNeeded_now(p)
    \/ \E p \in Procs : rotateIfNeeded_lock(p, "none")
    \/ \E p \in Procs : rotateIfNeeded_open(p, "none")
    \/ \E p \in Procs : rotateIfNeeded_unlock(p)
    \/ \E t \in Threads : Close_select(t)
    \/ \E t \in Threads : Close_stopCh(t)
    \/ \E t \in Threads : Close_locked(t, "none")
    \/ \E t \in Threads : Close_return(t)
    \/ autoRotate_tickFree
    \/ autoRotate_stop
    \/ DayAdvance

\* The Go scheduler runs every runnable goroutine, sync.RWMutex starves no
\* waiter, the ticker keeps firing, and a select with several ready cases
\* picks each of them sooner or later.
FairLive ==
    /\ WF_vars(autoRotate_tickFree)
    /\ SF_vars(autoRotate_stop)
    /\ \A p \in Procs :
          /\ SF_vars(rotateIfNeeded_lock(p, "none"))
          /\ WF_vars(rotateIfNeeded_open(p, "none"))
          /\ WF_vars(rotateIfNeeded_unlock(p))
    /\ \A t \in Threads :
          /\ WF_vars(Close_stopCh(t))
          /\ SF_vars(Close_locked(t, "none"))
          /\ WF_vars(Close_return(t))

SpecLive == Init /\ [][NextLive]_vars /\ FairLive

\* The same writer with system calls that fail: any close, directory, open or
\* cleanup call of a rotation check may fail, any number of times.
NextFaulty ==
    \/ \E p \in {Ctor} \cup Threads : rotateIfNeeded_now(p)
    \/ \E p \in Procs, flt \in CloseFaults : rotateIfNeeded_lock(p, flt)
    \/ \E p \in Procs, flt \in OpenFaults : rotateIfNeeded_open(p, flt)
    \/ \E p \in Procs : rotateIfNeeded_unlock(p)
    \/ \E t \in Threads : Close_select(t)
    \/ \E t \in Threads : Close_stopCh(t)
    \/ \E t \in Threads : Close_locked(t, "none")
    \/ \E t \in Threads : Close_return(t)
    \/ autoRotate_tickFree
    \/ autoRotate_stop
    \/ DayAdvance

\* The failing condition goes away: a check that keeps being run gets, sooner
\* or later, system calls that succeed. The rest is the scheduling of FairLive.
FairFaulty ==
    /\ WF_vars(autoRotate_tickFree)
    /\ SF_vars(autoRotate_stop)
    /\ \A p \in Procs :
          /\ SF_vars(rotateIfNeeded_lock(p, "none"))
          /\ SF_vars(rotateIfNeeded_open(p, "none"))
          /\ WF_vars(rotateIfNeeded_unlock(p))
    /\ \A t \in Threads :
          /\ WF_vars(Close_stopCh(t))
          /\ SF_vars(Close_locked(t, "none"))
          /\ WF_vars(Close_return(t))

SpecFaulty == Init /\ [][NextFaulty]_vars /\ FairFaulty

\* Every operation with every failure, under the Go scheduler: a goroutine that
\* can take a step takes it, a goroutine waiting for the lock gets it if the
\* lock keeps being released, and the select serves its stop case. Whether a
\* caller starts a call is left to the caller.
FairCalls ==
    /\ SF_vars(autoRotate_stop)
    /\ \A p \in Procs :
          /\ SF_vars(\E flt \in CloseFaults : rotateIfNeeded_lock(p, flt))
          /\ WF_vars(\E flt \in OpenFaults : rotateIfNeeded_open(p, flt))
          /\ WF_vars(rotateIfNeeded_unlock(p))
    /\ \A t \in Threads :
          /\ WF_vars(Write_io(t))
          /\ WF_vars(Write_return(t))
          /\ WF_vars(Close_stopCh(t))
          /\ SF_vars(\E flt \in CloseFaults : Close_locked(t, flt))
          /\ WF_vars(Close_return(t))

SpecCalls == Init /\ [][Next]_vars /\ FairCalls

\* ---------------------------------------------------------------- Claims
\* The buffers of a sequence of accepted writes, in order.
BufsOf(w) == [i \in 1..Len(w) |-> w[i].buf]

\* The accepted writes that went through handle h, on date d, under recorded date d.
AcceptedVia(h) == SelectSeq(wlog, LAMBDA e : e.h = h)
AcceptedOnDay(d) == SelectSeq(wlog, LAMBDA e : e.day = d)
AcceptedUnder(d) == SelectSeq(wlog, LAMBDA e : e.ld = d)

\* C1: once a Close has returned, every Write that starts afterwards returns an
\* error and appends nothing.
C1_WriteAfterCloseFails ==
    \A t \in Threads :
        (pc[t] = "w_ret" /\ loc[t].after) => (ret[t].err # "nil" /\ ret[t].n = 0)

Undisturbed ==
    /\ Len(handles) = 1
    /\ file = 1
    /\ handles[1].open
    /\ stopCh = "open"
    /\ \A t \in Threads : pc[t] # "c_chan"

\* C3: while no rotation switches files and no Close runs, every concurrent
\* Write of one line succeeds, the file gains exactly one line per such Write,
\* and every line in it is one caller's whole buffer.
C3_ConcurrentWritesWhole ==
    Undisturbed =>
        /\ \A t \in Threads : pc[t] = "w_ret" => ret[t].err = "nil"
        /\ Content(1) = handles[1].base \o Concat(BufsOf(wlog))
        /\ CountByte(Content(1), NL) =
              CountByte(handles[1].base, NL)
                 + Cardinality({i \in 1..Len(wlog) : wlog[i].buf # << >>})

\* Both threads are inside Write at once and both lines are in the file.
C3_Witness ==
    /\ Undisturbed
    /\ \A t \in Threads : pc[t] = "w_ret" /\ loc[t].buf # << >> /\ ret[t].err = "nil"
    /\ CountByte(Content(1), NL) = NThreads

\* C4 as stated: with no retention limit, each dated file holds exactly the
\* bytes of the Writes issued while that date was the local date.
C4_FilesHoldWritesOfLocalDate ==
    maxFiles = 0 =>
        \A d \in Dates :
            /\ AcceptedOnDay(d) # << >> => files[d].exists
            /\ files[d].exists => files[d].content = Concat(BufsOf(AcceptedOnDay(d)))

\* C4: with no retention limit, each dated file holds exactly the bytes of the
\* Writes accepted while that date was the writer's recorded date, in order;
\* a Write issued on the next day before the rotation check lands in the old file.
C4_FilesHoldWritesOfRecordedDate ==
    maxFiles = 0 =>
        \A d \in Dates :
            /\ AcceptedUnder(d) # << >> => files[d].exists
            /\ files[d].exists => files[d].content = Concat(BufsOf(AcceptedUnder(d)))

\* Bytes under D, a Write issued on D+1 before the check, the rotation to D+1
\* and bytes after it: two files, each non-empty.
C4_Witness ==
    /\ maxFiles = 0
    /\ today = FirstDay + 1
    /\ lastDate = today
    /\ file # 0
    /\ handles[file].open
    /\ handles[file].name = today
    /\ \E i \in 1..Len(wlog) : wlog[i].day = today /\ wlog[i].ld = FirstDay
    /\ \E i \in 1..Len(wlog) : wlog[i].ld = today /\ wlog[i].buf # << >>
    /\ files[FirstDay].exists /\ files[FirstDay].content # << >>
    /\ files[today].exists /\ files[today].content # << >>

\* No file that was deleted between before and after is newer than one that was kept.
NewestKept(before, after) ==
    \A k \in logFiles(after), d \in logFiles(before) \ logFiles(after) :
        before[d].mtime <= after[k].mtime

\* C5 as stated: whenever more than the limit of matching files are present,
\* any rotation check that returns without error leaves exactly the limit, the
\* most recently modified ones.
C5_AnyCheckPrunes ==
    [][\A p \in Procs :
          (/\ pc[p] \in {"rot_lock", "rot_open"}
           /\ pc'[p] = "rot_unlock"
           /\ ret'[p].err = "nil"
           /\ maxFiles > 0
           /\ Cardinality(logFiles(files)) > maxFiles)
          => (/\ Cardinality(logFiles(files')) = maxFiles
              /\ NewestKept(files, files'))]_vars

\* C5: a rotation check that opens the file for its date and returns without
\* error leaves exactly the limit of matching files, the most recently
\* modified ones, whenever more than the limit are present once the file is
\* opened; a check that finds the file of its date already open deletes nothing.
C5_OpeningCheckPrunes ==
    [][\A p \in Procs :
          /\ (/\ pc[p] = "rot_open"
              /\ pc'[p] = "rot_unlock"
              /\ ret'[p].err = "nil"
              /\ maxFiles > 0
              /\ Cardinality(logFiles(OpenFile(files, loc[p].today, clock))) > maxFiles)
             => (/\ Cardinality(logFiles(files')) = maxFiles
                 /\ NewestKept(OpenFile(files, loc[p].today, clock), files'))
          /\ (/\ pc[p] = "rot_lock"
              /\ pc'[p] = "rot_unlock"
              /\ ret'[p].op = "rotate_fast")
             => files' = files]_vars

\* A check after construction has switched files and pruned down to a limit of 2.
C5_Witness ==
    /\ pc[1] = "rot_unlock"
    /\ ret[1].op = "rotate"
    /\ ret[1].err = "nil"
    /\ maxFiles = 2
    /\ ret[1].deleted # {}
    /\ Cardinality(logFiles(files)) = maxFiles

\* The constructor is about to open today's file next to 3 older dated files
\* of distinct modification times, under a limit of 2.
C6_ThreeSeeded ==
    /\ pc[Ctor] = "rot_open"
    /\ maxFiles = 2
    /\ Cardinality(logFiles(files)) = 3
    /\ loc[Ctor].today \notin logFiles(files)
    /\ \A m, n \in logFiles(files) :
          /\ files[m].mtime < clock
          /\ m # n => files[m].mtime # files[n].mtime

OldestOf(fs) == CHOOSE n \in logFiles(fs) : \A m \in logFiles(fs) : fs[n].mtime <= fs[m].mtime
NewestOf(fs) == CHOOSE n \in logFiles(fs) : \A m \in logFiles(fs) : fs[m].mtime <= fs[n].mtime

\* C6 as stated: the check deletes the oldest pre-seeded file only, so that 2
\* pre-seeded files remain beside today's.
C6_KeepsTwoSeeded ==
    [][(C6_ThreeSeeded /\ pc'[Ctor] = "rot_unlock" /\ ret'[Ctor].err = "nil")
          => logFiles(files') = {loc[Ctor].today} \cup (logFiles(files) \ {OldestOf(files)})]_vars

\* C6: the limit counts today's file: the check deletes the two oldest
\* pre-seeded files, so that 2 matching files remain in all, today's and the
\* most recently modified pre-seeded one.
C6_KeepsLiveAndNewest ==
    [][(C6_ThreeSeeded /\ pc'[Ctor] = "rot_unlock" /\ ret'[Ctor].err = "nil")
          => logFiles(files') = {loc[Ctor].today, NewestOf(files)}]_vars

\* The constructor's check has deleted 2 of 3 untouched older files.
C6_Witness ==
    /\ pc[Ctor] = "rot_unlock"
    /\ ret[Ctor].err = "nil"
    /\ maxFiles = 2
    /\ envOps = 0
    /\ Cardinality(ret[Ctor].deleted) = 2
    /\ Cardinality(logFiles(files)) = 2
    /\ loc[Ctor].today \in logFiles(files)

\* C7: concurrent Close calls all return without a panic: the stop channel is
\* closed once.
C7_ConcurrentCloseNoPanic == ~panicked

\* C8: Close calls made one after another never panic: the second and later
\* calls find the stop channel closed and do not close it again.
C8_SequentialCloseNoPanic ==
    ~closeOverlap =>
        /\ ~panicked
        /\ \A t \in Threads : pc[t] = "c_chan" => stopCh = "open"

\* A second Close, begun after the first returned, has run to its end.
C8_Witness ==
    /\ ~closeOverlap
    /\ closeReturned
    /\ stopCh = "closed"
    /\ \E t \in Threads : pc[t] = "c_ret" /\ loc[t].after /\ ~ret[t].first

\* C9: every Close made after a first Close has returned reports an error,
\* whatever state the writer was in at the first Close.
C9_LaterCloseFails ==
    \A t \in Threads : (pc[t] = "c_ret" /\ loc[t].after) => ret[t].err # "nil"

\* C10: the first Close of a writer whose file is open returns nil when the
\* file's close succeeds, and leaves the file closed and the stop channel closed.
C10_FirstCloseSucceeds ==
    \A t \in Threads :
        (pc[t] = "c_ret" /\ ret[t].first /\ ret[t].wasOpen /\ ret[t].flt = "none")
        => /\ ret[t].err = "nil"
           /\ stopCh = "closed"
           /\ \A h \in 1..Len(handles) : ~handles[h].open

\* The first Close has closed the file under a Write still holding its snapshot.
C10_Witness ==
    \E t, u \in Threads :
        /\ pc[t] = "c_ret"
        /\ ret[t].first
        /\ ret[t].wasOpen
        /\ ret[t].err = "nil"
        /\ pc[u] = "w_io"
        /\ loc[u].h = file

\* C11: after a Close has returned, no later operation leaves the writer
\* holding an open file handle again.
C11_ClosedStaysClosed ==
    closeReturned => (file = 0 \/ ~handles[file].open)

\* C12: a Write that finds drw.file nil returns 0 bytes and the "not
\* initialized" error, creates no file and leaves the handle and the date as
\* they were.
C12_WriteWithoutFile ==
    [][\A t \in Threads :
          (pc[t] = "w_io" /\ loc[t].h = 0 /\ pc'[t] = "w_ret")
          => /\ ret'[t].err = "not_initialized"
             /\ ret'[t].n = 0
             /\ files' = files
             /\ handles' = handles
             /\ file' = file
             /\ lastDate' = lastDate
             /\ wlog' = wlog]_vars

\* A failed rotation left the writer without a file and a Write has been refused.
C12_Witness ==
    \E t \in Threads :
        /\ pc[t] = "w_ret"
        /\ loc[t].h = 0
        /\ loc[t].buf # << >>
        /\ ret[t].err = "not_initialized"
        /\ file = 0
        /\ lastDate # 0
        /\ ~closeReturned

\* C13: when the constructor's rotation check fails, NewDailyRotateWriter
\* returns the error and no writer, and no autoRotate goroutine is started for
\* that instance, then or later.
C13_FailedConstructStartsNothing ==
    [][/\ (pc[Ctor] = "rot_unlock" /\ ret[Ctor].err # "nil" /\ pc'[Ctor] # "rot_unlock")
          => (pc'[Ctor] = "failed" /\ bgStarted' = 0 /\ pc'[Bg] = "none")
       /\ pc[Ctor] = "failed"
          => /\ pc'[Ctor] = "failed"
             /\ bgStarted' = 0
             /\ pc'[Bg] = "none"
             /\ \A t \in Threads : pc'[t] = "idle"]_vars

\* The constructor failed in the retention cleanup, after it had committed the file.
C13_Witness ==
    /\ pc[Ctor] = "failed"
    /\ file # 0
    /\ maxFiles > 0
    /\ bgStarted = 0
    /\ pc[Bg] = "none"

\* C14: a successful NewDailyRotateWriter returns a writer whose file is open
\* under the date the constructor read, and starts exactly one autoRotate
\* goroutine; no later operation starts another.
C14_OneTaskPerWriter ==
    [][/\ (pc[Ctor] = "rot_unlock" /\ pc'[Ctor] = "done")
          => /\ file # 0
             /\ handles[file].open
             /\ handles[file].name = loc[Ctor].today
             /\ lastDate = loc[Ctor].today
             /\ bgStarted = 0
             /\ bgStarted' = 1
             /\ pc'[Bg] = "select"
       /\ pc[Ctor] = "done" => bgStarted' = 1
       /\ pc[Ctor] # "done" => bgStarted = 0]_vars

\* Every call of the budget has run, a later check has opened a second file,
\* and there is still one goroutine.
C14_Witness ==
    /\ pc[Ctor] = "done"
    /\ bgStarted = 1
    /\ nOps = MaxOps
    /\ Len(handles) >= 2
    /\ pc[Bg] \in {"select", "exit"}

\* The separators and the dots of the last path element of b.
Separators(b) == {i \in 1..Len(b) : b[i] = "/"}
DotsOfLastElement(b) ==
    {i \in 1..Len(b) : b[i] = "." /\ \A j \in Separators(b) : j < i}
Largest(S) == CHOOSE i \in S : \A j \in S : j <= i

\* The base path with -<date> put before the extension of its last element,
\* or followed by -<date>.log when that element has no dot.
DatedName(b, d) ==
    IF DotsOfLastElement(b) = {}
    THEN b \o <<"-">> \o d \o <<".", "l", "o", "g">>
    ELSE SubSeq(b, 1, Largest(DotsOfLastElement(b)) - 1) \o <<"-">> \o d
            \o SubSeq(b, Largest(DotsOfLastElement(b)), Len(b))

\* C15: for every base path and date the rotated filename is the base path
\* with "-<date>" inserted before the extension of its last path element, and
\* the base path followed by "-<date>.log" when it has no extension.
C15_RotatedName ==
    pc[Ctor] \in {"rot_open", "rot_unlock"}
    => fname = DatedName(basePath, DateText(loc[Ctor].today))

\* A base path with a dot in its directory and none in its last element.
C15_Witness ==
    /\ pc[Ctor] = "rot_unlock"
    /\ basePath = <<".", "/", "a">>
    /\ fname = <<".", "/", "a", "-", "0", "2", ".", "l", "o", "g">>

\* The writer holds the open file of the current date.
OpenForToday ==
    /\ file # 0
    /\ handles[file].open
    /\ handles[file].name = today
    /\ lastDate = today

\* C16: on an open writer the background ticks alone bring the writer to the
\* current date: whenever the date has changed, sooner or later the file named
\* for the new date is open and recorded, unless the writer is closed first.
C16_TickFollowsDate ==
    [](Constructed => <>(OpenForToday \/ stopCh = "closed"))

\* A tick has rotated to the new date with no call made on the writer.
C16_Witness ==
    /\ nOps = 0
    /\ today = FirstDay + 1
    /\ pc[Bg] = "rot_unlock"
    /\ ret[Bg].op = "rotate"
    /\ OpenForToday
    /\ stopCh = "open"

\* C17: once Close has closed the stop channel, the autoRotate goroutine
\* terminates, whatever it was doing at that moment.
C17_BackgroundStops ==
    (stopCh = "closed") ~> (pc[Bg] = "exit" \/ panicked)

\* The stop channel is closed while autoRotate waits for the lock a caller's
\* rotation check holds.
C17_Witness ==
    /\ stopCh = "closed"
    /\ pc[Bg] = "rot_lock"
    /\ mu \in Threads
    /\ ~panicked

\* C18: with no Close, a Write that overlaps a rotation check which switches
\* files returns success with all its bytes written: it never fails because
\* the rotation closed the handle it had snapshotted.
C18_NoWriteLostInRotation ==
    \A t \in Threads :
        (/\ pc[t] = "w_ret"
         /\ stopCh = "open"
         /\ loc[t].h # 0
         /\ file # 0
         /\ handles[file].open)
        => (ret[t].err = "nil" /\ ret[t].n = Len(loc[t].buf))

\* The errors of the open sequence before the file is opened.
OpenErrors == {"dir_not_writable", "target_not_writable", "create"}

\* C19: when a rotation check on a writer with an open file fails because the
\* directory or the target is not writable or the open fails, the writer keeps
\* the file it had open before the check and Writes against it are accepted.
C19_FailedCheckKeepsFile ==
    \A p \in Procs :
        (pc[p] = "rot_unlock" /\ ret[p].err \in OpenErrors /\ loc[p].h # 0)
        => (file = loc[p].h /\ WriteError(handles, file) = "nil")

\* The errors of the retention cleanup.
CleanErrors == {"clean_readdir", "clean_remove"}

\* C20: when a rotation check returns an error of the retention cleanup only,
\* the new file and the new date are committed: a Write issued next finds the
\* new file's open handle and succeeds, and a check on the same date takes
\* the no-action path.
C20_PruneFailureKeepsCommit ==
    \A p \in Procs :
        (pc[p] = "rot_unlock" /\ ret[p].err \in CleanErrors)
        => /\ file = Len(handles)
           /\ handles[file].name = loc[p].today
           /\ lastDate = loc[p].today
           /\ WriteError(handles, file) = "nil"
           /\ upToDate(file, lastDate, loc[p].today)

\* After a check of thread 1 whose cleanup failed (more files than the limit
\* are left, and nothing else made them), a Write has gone to the new file.
C20_Witness ==
    /\ pc[1] = "w_ret"
    /\ ret[1].err = "nil"
    /\ ret[1].n = 2
    /\ envOps = 0
    /\ maxFiles = 1
    /\ Cardinality(logFiles(files)) > maxFiles
    /\ loc[1].h = file
    /\ handles[file].name = today
    /\ today = MaxDay
    /\ Len(handles) = 2

\* C21: under retention limit 0 no step of the writer removes a file of the
\* directory, whatever the directory holds and however many checks run.
C21_UnlimitedDeletesNothing ==
    [][maxFiles = 0 => \A n \in Names : files[n].exists => files'[n].exists]_vars

\* Under limit 0 a check after construction has switched files in a directory
\* that holds every dated file, and has deleted none.
C21_Witness ==
    /\ maxFiles = 0
    /\ logFiles(files) = Names
    /\ Len(handles) = 2
    /\ pc[1] = "rot_unlock"
    /\ ret[1].op = "rotate"
    /\ ret[1].err = "nil"
    /\ ret[1].deleted = {}

\* The white space around s removed, and equality of texts up to the case of letters.
FirstInk(s) == CHOOSE i \in 1..Len(s) : s[i] \notin SpaceChars /\ \A j \in 1..(i - 1) : s[j] \in SpaceChars
LastInk(s) == CHOOSE i \in 1..Len(s) : s[i] \notin SpaceChars /\ \A j \in (i + 1)..Len(s) : s[j] \in SpaceChars
Trimmed(s) ==
    IF \A i \in 1..Len(s) : s[i] \in SpaceChars THEN << >> ELSE SubSeq(s, FirstInk(s), LastInk(s))
SameLetter(a, b) ==
    a = b \/ \E j \in 1..26 : {a, b} = {LowerLetters[j], UpperLetters[j]}
IsWord(s, w) ==
    Len(Trimmed(s)) = Len(w) /\ \A i \in 1..Len(w) : SameLetter(Trimmed(s)[i], w[i])

\* C22: parseLevel maps, after trimming and ignoring case, "debug" to Debug,
\* "info" and the empty string to Info, "warn" and "warning" to Warn, "error"
\* and "err" to Error, and returns an error for every other string.
C22_ParseLevel ==
    logLevel # NoParse =>
        IF IsWord(level, <<"d", "e", "b", "u", "g">>)
        THEN logLevel = [level |-> LevelDebug, err |-> "nil"]
        ELSE IF IsWord(level, <<"i", "n", "f", "o">>) \/ IsWord(level, << >>)
        THEN logLevel = [level |-> LevelInfo, err |-> "nil"]
        ELSE IF IsWord(level, <<"w", "a", "r", "n">>)
                \/ IsWord(level, <<"w", "a", "r", "n", "i", "n", "g">>)
        THEN logLevel = [level |-> LevelWarn, err |-> "nil"]
        ELSE IF IsWord(level, <<"e", "r", "r", "o", "r">>) \/ IsWord(level, <<"e", "r", "r">>)
        THEN logLevel = [level |-> LevelError, err |-> "nil"]
        ELSE logLevel.err # "nil"

\* " WaRnInG\t" has been parsed as Warn.
C22_Witness ==
    /\ level = <<" ", "w", "A", "r", "N", "i", "N", "g", "\t">>
    /\ logLevel = [level |-> LevelWarn, err |-> "nil"]

\* What a rotation check can change of the writer and the directory.
checked == <<file, lastDate, files, handles, clock, fname>>

\* C23: a rotation check that finds the file open and the recorded date equal
\* to the date it read returns nil and changes nothing, at the test and at its
\* return: handle, date, directory, open files and the file system's clock
\* stay as they are, and the check goes straight to its return.
C23_SameDayCheckIsNoOp ==
    [][\A p \in Procs :
          /\ (/\ pc[p] = "rot_lock"
              /\ pc'[p] # "rot_lock"
              /\ file # 0
              /\ handles[file].open
              /\ lastDate = loc[p].today)
             => (/\ pc'[p] = "rot_unlock"
                 /\ ret'[p].op = "rotate_fast"
                 /\ ret'[p].err = "nil"
                 /\ checked' = checked)
          /\ (pc[p] = "rot_unlock" /\ ret[p].op = "rotate_fast" /\ pc'[p] # "rot_unlock")
             => checked' = checked]_vars

\* Every call of the budget was a rotation check or a tick on the day of
\* construction, and the first file is still the only one.
C23_Witness ==
    /\ nOps = MaxOps
    /\ wlog = << >>
    /\ stopCh = "open"
    /\ today = FirstDay
    /\ \A t \in Threads : pc[t] \in {"idle", "rot_lock", "rot_unlock"}
    /\ pc[1] = "rot_unlock"
    /\ ret[1].op = "rotate_fast"
    /\ Len(handles) = 1
    /\ file = 1
    /\ handles[1].open
    /\ files[FirstDay].content = << >>

\* C24: handles are numbered in the order the checks commit them. A Write
\* takes its snapshot while no check holds the lock, and what it takes is the
\* handle of the latest commit (or none, when a later check has failed), with
\* the date of that commit recorded beside it: never an earlier handle.
C24_WriteSeesLatestCommit ==
    [][\A t \in Threads :
          (pc[t] = "idle" /\ pc'[t] = "w_io")
          => /\ mu = 0
             /\ loc'[t].h \in {0, Len(handles)}
             /\ loc'[t].h # 0 => lastDate = handles[loc'[t].h].name]_vars

\* A Write went through the first handle, a check committed a second one, and
\* a Write that took its snapshot afterwards has written through the second.
C24_Witness ==
    \E t \in Threads :
        /\ pc[t] = "w_ret"
        /\ ret[t].err = "nil"
        /\ loc[t].buf # << >>
        /\ loc[t].h = 2
        /\ Len(handles) = 2
        /\ ~handles[1].open
        /\ AcceptedVia(1) # << >>
        /\ Content(2) = loc[t].buf

\* C25: a check holds the exclusive lock from the close of the old file to its
\* return, so a Write takes its snapshot only while no check is between the
\* close and the commit: what it takes is a handle together with the date
\* that handle was opened under, never the state in between.
C25_WriteSeesNoHalfRotation ==
    [][/\ \A p \in Procs : pc[p] \in {"rot_open", "rot_unlock"} => mu = p
       /\ \A t \in Threads :
             (pc[t] = "idle" /\ pc'[t] = "w_io")
             => /\ \A p \in Procs : pc[p] \notin {"rot_open", "rot_unlock"}
                /\ loc'[t].h # 0 => handles[loc'[t].h].name = loc'[t].ld]_vars

\* The background check is between its close of the first file and its
\* commit while a caller's Write holds the old handle; no handle is installed.
C25_Witness ==
    /\ pc[Bg] = "rot_open"
    /\ mu = Bg
    /\ file = 0
    /\ Len(handles) = 1
    /\ \E t \in Threads : pc[t] = "w_io" /\ loc[t].h = 1
    /\ \E t \in Threads : pc[t] = "idle"

\* C26: after a check has failed in closing the old file, a later check whose
\* own system calls all succeed opens a file: with no Close called, a check
\* returns the close error only when the close it issues fails in the system.
C26_CloseFailureRecovers ==
    \A p \in Procs :
        (pc[p] = "rot_unlock" /\ ret[p].err = "close_existing" /\ stopCh = "open")
        => ret[p].flt = "close"

\* C27: while the writer is not closed, a failure of a background check does
\* not end the ticks: whenever the writer does not hold the open file of the
\* current date, a later tick opens it once system calls succeed again, and a
\* Write then finds a handle it can write to.
C27_TickRecovers ==
    (Constructed /\ stopCh = "open" /\ ~OpenForToday)
        ~> ((OpenForToday /\ WriteError(handles, file) = "nil") \/ stopCh = "closed")

\* C28: once Close has closed the stop channel, autoRotate starts no further
\* rotation check: its select never serves a tick while the channel is closed.
C28_NoTickAfterStop ==
    [][stopCh = "closed" => ~(pc[Bg] = "select" /\ pc'[Bg] = "rot_lock")]_vars

\* Process p takes the commit step of its rotation check.
Commits(p) == pc[p] = "rot_open" /\ pc'[p] = "rot_unlock" /\ ret'[p].err \notin OpenErrors \cup {"mkdir"}

\* C29: whenever drw.file is non-nil it is a handle opened on the file of
\* drw.lastDate; a handle is installed and the date is changed by the commit
\* step of a rotation check only, both in that one step, and the only other
\* change of the handle is its clearing to nil by a check's close of the old file.
C29_HandleOpenedUnderDate ==
    [][/\ file # 0 => handles[file].name = lastDate
       /\ file' # 0 => handles'[file'].name = lastDate'
       /\ (lastDate' # lastDate \/ (file' # file /\ file' # 0))
          => \E p \in Procs :
                /\ Commits(p)
                /\ file' = Len(handles')
                /\ Len(handles') = Len(handles) + 1
                /\ lastDate' = loc[p].today
                /\ handles'[file'].name = loc[p].today
                /\ fname = newFilename(basePath, DateText(loc[p].today))
       /\ (file' # file /\ file' = 0)
          => (lastDate' = lastDate /\ \E p \in Procs : pc[p] = "rot_lock" /\ pc'[p] = "rot_open")]_vars

\* A check has failed past its close and a later check has committed a third
\* handle, on the file of the date the second was opened under.
C29_Witness ==
    /\ Len(handles) = 3
    /\ file = 3
    /\ handles[3].open
    /\ handles[3].name = handles[2].name
    /\ handles[3].name # handles[1].name
    /\ lastDate = handles[3].name

\* The log file handles that are open.
OpenHandles == {h \in 1..Len(handles) : handles[h].open}

\* C30: at most one handle the writer opened is open; a check that is about
\* to open a file has closed the handle it found, so none is open then; and
\* an open handle is the one drw.file holds.
C30_OneOpenHandle ==
    /\ Cardinality(OpenHandles) <= 1
    /\ \A p \in Procs : pc[p] = "rot_open" => OpenHandles = {}
    /\ OpenHandles \subseteq {file}

\* After two commits, a failed check and a Close call that has returned, a
\* further check has committed another handle, the only one open.
C30_Witness ==
    /\ Len(handles) >= 3
    /\ OpenHandles = {Len(handles)}
    /\ stopCh = "closed"
    /\ closeReturned
    /\ \E p \in Procs : pc[p] = "rot_unlock" /\ ret[p].op = "rotate" /\ ret[p].err = "nil"

\* The name a rotation check gives the file of some date, under base path b.
IsRotatedName(b, t) == \E d \in Dates : t = newFilename(Base(b), DateText(d))

\* C31: the cleanup lists (counts, and so may delete) only regular files
\* named as the base filename's prefix, "-<date>" and the base filename's
\* extension, ".log" when the base has none.
C31_PrunesDatedFilesOnly ==
    listed = "yes" => (~entry.dir /\ IsRotatedName(basePath, entry.name))

\* C32: a cleanup that returns no error over c listed files under limit L
\* deletes nothing when c <= L; otherwise it deletes c - L listed files, none
\* of them modified later than a file it keeps, and leaves the other L as they
\* were, whatever the dates in the names.
C32_PruneByModTime ==
    [][\A p \in Procs :
          (pc[p] = "rot_open" /\ pc'[p] = "rot_unlock" /\ ret'[p].err = "nil" /\ maxFiles > 0)
          => LET before == OpenFile(files, loc[p].today, clock)
                 c == Cardinality(logFiles(before))
                 D == logFiles(before) \ logFiles(files')
             IN  /\ c <= maxFiles => files' = before
                 /\ c > maxFiles =>
                       /\ Cardinality(D) = c - maxFiles
                       /\ Cardinality(logFiles(files')) = maxFiles
                       /\ D = ret'[p].deleted
                       /\ \A d \in D, k \in logFiles(files') : before[d].mtime <= before[k].mtime
                       /\ \A k \in Names \ D : files'[k] = before[k]]_vars

\* A check under limit 2 has deleted a file whose name carries a later date
\* than a file it kept.
C32_Witness ==
    /\ maxFiles = 2
    /\ pc[1] = "rot_unlock"
    /\ ret[1].err = "nil"
    /\ ret[1].deleted # {}
    /\ \E d \in ret[1].deleted, k \in logFiles(files) : k < d

\* C33: a cleanup that fails in removing a file returns the error that names
\* that file and stops there: the file is still in the directory, every file
\* deleted in the call is gone and was no later than it in the order of
\* modification times, and no file later in that order is deleted.
C33_RemoveFailureStops ==
    [][\A p \in Procs :
          (pc[p] = "rot_open" /\ pc'[p] = "rot_unlock" /\ ret'[p].err = "clean_remove")
          => LET before == OpenFile(files, loc[p].today, clock)
                 D == ret'[p].deleted
                 f == ret'[p].failed
             IN  /\ f \in logFiles(before) \ D
                 /\ files' = Unlink(before, D)
                 /\ D \subseteq logFiles(before)
                 /\ Cardinality(D) < Cardinality(logFiles(before)) - maxFiles
                 /\ \A d \in D : before[d].mtime <= before[f].mtime
                 /\ \A k \in logFiles(files') : before[f].mtime <= before[k].mtime]_vars

\* A cleanup had 3 files to delete, deleted one and failed on the second.
C33_Witness ==
    \E p \in Procs :
        /\ pc[p] = "rot_unlock"
        /\ ret[p].err = "clean_remove"
        /\ Cardinality(ret[p].deleted) = 1
        /\ files[ret[p].failed].exists
        /\ Cardinality(logFiles(files)) = maxFiles + 2

\* C34: when the file of the check's date exists and its open for append
\* fails, the check returns the "existing log file is not writable" error and
\* commits nothing: the recorded date stays, no handle is installed or opened,
\* and the directory is as it was.
C34_UnwritableTargetAborts ==
    [][\A p \in Procs :
          (/\ pc[p] = "rot_open"
           /\ pc'[p] = "rot_unlock"
           /\ ret'[p].flt = "target"
           /\ files[loc[p].today].exists)
          => /\ ret'[p].err = "target_not_writable"
             /\ lastDate' = lastDate
             /\ file' = 0
             /\ handles' = handles
             /\ files' = files]_vars

\* A check on a writer that had a file open has met an existing, unwritable
\* file of the new date.
C34_Witness ==
    /\ pc[1] = "rot_unlock"
    /\ ret[1].err = "target_not_writable"
    /\ loc[1].h # 0
    /\ files[loc[1].today].exists
    /\ lastDate # 0
    /\ lastDate # loc[1].today
    /\ file = 0
    /\ Len(handles) = 1

\* C35: a rotation check that is invoked after a Close has returned returns an
\* error and opens no file.
C35_CheckAfterCloseFails ==
    \A t \in Threads :
        (pc[t] = "rot_unlock" /\ loc[t].after)
        => /\ ret[t].err # "nil"
           /\ (file = 0 \/ ~handles[file].open)

\* C36: whatever Close does between a Write's snapshot and its I/O, the Write
\* either appends its whole buffer to the snapshotted file and returns
\* (len, nil), or appends nothing and returns (0, error), the closed-file
\* error when the handle was closed before the I/O; no step of a Write panics.
C36_WriteAllOrNothing ==
    [][\A t \in Threads :
          /\ (pc[t] = "w_io" /\ pc'[t] = "w_ret")
             => LET h == loc[t].h
                    b == loc[t].buf
                IN  \/ /\ ret'[t].err = "nil"
                       /\ ret'[t].n = Len(b)
                       /\ h # 0
                       /\ handles[h].open
                       /\ IF handles[h].orphan
                          THEN /\ handles'[h].data = handles[h].data \o b
                               /\ files' = files
                          ELSE /\ files'[handles[h].name].content =
                                     files[handles[h].name].content \o b
                               /\ \A d \in Names \ {handles[h].name} : files'[d] = files[d]
                               /\ handles' = handles
                    \/ /\ ret'[t].err # "nil"
                       /\ ret'[t].n = 0
                       /\ files' = files
                       /\ handles' = handles
                       /\ (h # 0 => (~handles[h].open /\ ret'[t].err = "closed"))
          /\ (pc[t] # pc'[t] /\ (pc[t] \in {"w_io", "w_ret"} \/ pc'[t] = "w_io"))
             => panicked' = panicked]_vars

\* A Write that took its snapshot before any Close had returned ran its I/O
\* after a Close had closed the file.
C36_Witness ==
    \E t \in Threads :
        /\ pc[t] = "w_ret"
        /\ ~loc[t].after
        /\ loc[t].h # 0
        /\ loc[t].buf # << >>
        /\ ret[t].err = "closed"
        /\ ret[t].n = 0
        /\ closeBodyRan

\* C37: when a rotation check with a retention limit of at least one returns,
\* the file named for the writer's recorded date is still in the directory
\* and is the file the writer's open handle refers to.
C37_PruneKeepsOpenFile ==
    \A p \in Procs :
        (/\ pc[p] = "rot_unlock"
         /\ maxFiles >= 1
         /\ file # 0
         /\ handles[file].open)
        => /\ files[lastDate].exists
           /\ ~handles[file].orphan

\* C38: once NewDailyRotateWriter has returned an error, no file handle that
\* its rotation check opened is still open.
C38_FailedConstructLeavesNoHandle ==
    pc[Ctor] = "failed" => \A i \in 1..Len(handles) : ~handles[i].open

\* C39: no step of a Write changes the writer: the handle, the recorded date,
\* the lock, the stop channel and the limit stay as they were, no handle is
\* opened or closed and no file is created or removed, whatever the local
\* date is.
C39_WriteLeavesWriterAlone ==
    [][\A t \in Threads :
          (pc[t] # pc'[t] /\ (pc[t] \in {"w_io", "w_ret"} \/ pc'[t] = "w_io"))
          => /\ file' = file
             /\ lastDate' = lastDate
             /\ mu' = mu
             /\ stopCh' = stopCh
             /\ maxFiles' = maxFiles
             /\ Len(handles') = Len(handles)
             /\ \A i \in 1..Len(handles) :
                    /\ handles'[i].open = handles[i].open
                    /\ handles'[i].name = handles[i].name
                    /\ handles'[i].orphan = handles[i].orphan
             /\ \A d \in Names : files'[d].exists = files[d].exists]_vars

\* A Write made on a date other than the recorded one has been accepted, and
\* the writer still records the old date.
C39_Witness ==
    \E t \in Threads :
        /\ pc[t] = "w_ret"
        /\ ret[t].err = "nil"
        /\ loc[t].buf # << >>
        /\ loc[t].day # loc[t].ld
        /\ lastDate = loc[t].ld
        /\ today # lastDate
        /\ file = loc[t].h
        /\ ~files[today].exists

\* The caller p is between calls.
AtRest(p) == pc[p] \in {"new", "idle", "done", "failed"}

\* C40: every call of a caller returns: a constructor, a rotation check, a
\* Write or a Close that has begun is sooner or later back with its caller,
\* whatever fails on the way.
C40_EveryCallReturns ==
    \A p \in {Ctor} \cup Threads : (~AtRest(p)) ~> AtRest(p)

\* Short of a panic, every call returns and the background check lets go of
\* the lock.
ReturnsUnlessPanicked ==
    /\ \A p \in {Ctor} \cup Threads : (~AtRest(p)) ~> (AtRest(p) \/ panicked)
    /\ (mu # 0) ~> (mu = 0 \/ panicked)

====
